---- MODULE Spec2Model ----
(***************************************************************************)
(* RasterArray.py: the Cells grid and the GameofLife controller.           *)
(*                                                                         *)
(* Strings are modelled as sequences of tokens: a path is the tokens of    *)
(* its directory followed by the tokens of its file name, os.path.join is  *)
(* concatenation and str(n) is the sequence of the decimal digits of n.    *)
(* The tokens are chosen so that the text "cycle" occurs in a path exactly *)
(* where the token "cycle" does ("lifecycle" is <<"life", "cycle">>).      *)
(***************************************************************************)
EXTENDS Integers, Sequences, FiniteSets, TLC

VARIABLES
    files,        \* the file system: path -> file content
    layers,       \* QgsMapLayerRegistry: the displayed layers, in order
    startRaster,  \* self.startRaster
    inRaster,     \* self.inRaster
    output,       \* self.output
    cycles,       \* self.cycles
    board,        \* self.board, a Cells object
    overwrite,    \* self.overwrite
    EPSG,         \* self.EPSG
    pc,           \* "idle", or "cycling" inside the loop of cycle
    run,          \* the locals of the running cycle call
    inBoard,      \* the local inBoard of the latest raw step
    result,       \* how the latest call ended: "ok" or "raised"
    op,           \* the latest operation
    seed,         \* history: the array of the start raster at construction
    rawSteps,     \* history: raw steps executed since construction or reset
    gens,         \* history: gens[g] is the array produced by raw step g
    snaps,        \* history: the existing files that a raw step has written
    delFailed,    \* the files whose os.remove failed in the latest reset
    modifies,     \* history: number of modify calls made by the caller
    call          \* the latest direct call of Cells.get, Cells.modify or xyOffset

vars == <<files, layers, startRaster, inRaster, output, cycles, board,
          overwrite, EPSG, pc, run, inBoard, result, op, seed, rawSteps,
          gens, snaps, delFailed, modifies, call>>

----------------------------------------------------------------------------
(* Bounds *)

MaxCells == 9        \* rule specification: grids of at most this many cells
BlinkerDim == 4      \* side of the square grid the blinkers are seeded on
MaxRuleSteps == 2    \* rule specification: raw steps per behaviour
CtlMaxCells == 4     \* controller specification: cells of the start grid
MaxN == 2            \* largest n of a cycle call
MaxJump == 2         \* largest jump of a cycle call
MaxSteps == 4        \* raw steps between two resets
MaxModifies == 1     \* modify calls per behaviour
MaxDelFail == 2      \* files whose deletion fails in one reset
CleanupMaxCells == 2 \* failing resets: cells of the start grid
MaxCoord == 3        \* geographic coordinates lie this close to the origin
MaxIndex == 2        \* largest column and row whose centre is round-tripped
MaxDim == 2          \* Cells specification: largest number of rows and of columns

(* Program constants *)

DefaultEPSG == 4326

----------------------------------------------------------------------------
(* Strings and paths *)

Digits == <<"0", "1", "2", "3", "4", "5", "6", "7", "8", "9">>

RECURSIVE Str(_)
Str(n) == IF n < 10 THEN <<Digits[n + 1]>>
          ELSE Str(n \div 10) \o <<Digits[(n % 10) + 1]>>

Join(dir, name) == dir \o name

ContainsCycle(path) == \E i \in 1..Len(path) : path[i] = "cycle"

TifName(layer) == layer \o <<".tif">>

ListDir(fs, dir) ==
    {p \in DOMAIN fs : Len(p) > Len(dir) /\ SubSeq(p, 1, Len(dir)) = dir}

----------------------------------------------------------------------------
(* Numbers of geographic coordinates, and xyOffset                         *)
(*                                                                         *)
(* A number is its value counted in halves together with its Python type:  *)
(* v = 3 with fl = TRUE is the float 1.5, v = 4 with fl = FALSE is the int *)
(* 2.  In Python 2 the quotient of two ints is their floor quotient and    *)
(* the quotient of a float and any number is the true quotient; int() of a *)
(* float drops the fraction.                                               *)

PyInt(n) == [v |-> 2 * n, fl |-> FALSE]

PyFloat(halves) == [v |-> halves, fl |-> TRUE]

AsDouble(a) == [v |-> a.v, fl |-> TRUE]

Minus(a, b) == [v |-> a.v - b.v, fl |-> a.fl \/ b.fl]

Plus(a, b) == [v |-> a.v + b.v, fl |-> a.fl \/ b.fl]

Abs(n) == IF n < 0 THEN -n ELSE n

FloorDiv(a, b) == IF b > 0 THEN a \div b ELSE (-a) \div (-b)

TruncDiv(a, b) ==
    IF (a < 0) = (b < 0) THEN Abs(a) \div Abs(b) ELSE -(Abs(a) \div Abs(b))

Quotient(a, b) ==
    IF a.fl \/ b.fl
    THEN [num |-> a.v, den |-> b.v, fl |-> TRUE]
    ELSE [num |-> FloorDiv(a.v, b.v), den |-> 1, fl |-> FALSE]

int(q) == IF q.fl THEN TruncDiv(q.num, q.den) ELSE q.num

xyOffset(x, y, rasterOrigin, cellWidth, cellHeight) ==
    LET xOffset == int(Quotient(Minus(x, rasterOrigin[1]), cellWidth))
        yOffset == int(Quotient(Minus(Plus(y, PyInt(1)), rasterOrigin[2]), cellHeight))
    IN <<xOffset, yOffset>>

----------------------------------------------------------------------------
(* Arrays, rasters and Cells *)

Values == {0, 1}

NumericValues == {0, 1, 2}

ArraysOver(values, r, c) == [0..(r - 1) -> [0..(c - 1) -> values]]

Arrays(r, c) == ArraysOver(Values, r, c)

Shape(a) == <<Cardinality(DOMAIN a), Cardinality(DOMAIN a[0])>>

ToByte(v) == IF v < 0 THEN 0 ELSE IF v > 255 THEN 255 ELSE v

Array2Raster(fs, inArray, outRaster, rasterOrigin, pixelWidth, pixelHeight, srs) ==
    LET content == [raster |-> TRUE,
                    array |-> [i \in DOMAIN inArray |->
                                 [j \in DOMAIN inArray[i] |-> ToByte(inArray[i][j])]],
                    rows |-> Shape(inArray)[1],
                    cols |-> Shape(inArray)[2],
                    origin |-> <<AsDouble(rasterOrigin[1]), AsDouble(rasterOrigin[2])>>,
                    cellWidth |-> AsDouble(pixelWidth),
                    cellHeight |-> AsDouble(pixelHeight),
                    srs |-> srs]
    IN [p \in DOMAIN fs \cup {outRaster} |->
          IF p = outRaster THEN content ELSE fs[p]]

CanOpen(fs, path) == path \in DOMAIN fs /\ fs[path].raster

Cells(fs, path, epsg) ==
    [array |-> fs[path].array,
     EPSG |-> epsg,
     cols |-> fs[path].cols,
     rows |-> fs[path].rows,
     origin |-> fs[path].origin,
     cellWidth |-> fs[path].cellWidth,
     cellHeight |-> fs[path].cellHeight]

NoCells ==
    [array |-> <<>>, EPSG |-> 0, cols |-> 0, rows |-> 0,
     origin |-> <<PyInt(0), PyInt(0)>>, cellWidth |-> PyInt(0),
     cellHeight |-> PyInt(0)]

Filled(rows, cols, value) ==
    [i \in 0..(rows - 1) |-> [j \in 0..(cols - 1) |-> value]]

Rectangular(literal) ==
    /\ Len(literal) > 0
    /\ \A i \in 1..Len(literal) : Len(literal[i]) = Len(literal[1])

ArrayOf(literal) ==
    [i \in 0..(Len(literal) - 1) |->
        [j \in 0..(Len(literal[1]) - 1) |-> literal[i + 1][j + 1]]]

CellsNew(fs, inRasterArg, epsg, rasterOrigin, cols, rows, pixelWidth, pixelHeight, rnd) ==
    LET made(array, r, c) ==
            [raised |-> FALSE,
             cells |-> [array |-> array, EPSG |-> epsg, cols |-> c, rows |-> r,
                        origin |-> rasterOrigin, cellWidth |-> pixelWidth,
                        cellHeight |-> pixelHeight]]
        failed == [raised |-> TRUE, cells |-> NoCells]
    IN CASE inRasterArg.kind = "None" -> made(rnd, rows, cols)
         [] inRasterArg.kind = "number" -> made(Filled(rows, cols, inRasterArg.value), rows, cols)
         [] inRasterArg.kind = "list" ->
                IF Rectangular(inRasterArg.literal)
                THEN made(ArrayOf(inRasterArg.literal), Len(inRasterArg.literal),
                          Len(inRasterArg.literal[1]))
                ELSE failed
         [] inRasterArg.kind = "path" ->
                IF CanOpen(fs, inRasterArg.path)
                THEN [raised |-> FALSE, cells |-> Cells(fs, inRasterArg.path, epsg)]
                ELSE failed

InRange(k, n) == -n <= k /\ k < n

NpIndex(k, n) == IF k < 0 THEN k + n ELSE k

Get(cells, x, y) ==
    cells.array[NpIndex(y, Shape(cells.array)[1])][NpIndex(x, Shape(cells.array)[2])]

CanIndex(cells, x, y) ==
    InRange(y, Shape(cells.array)[1]) /\ InRange(x, Shape(cells.array)[2])

Modified(cells, x, y, value) ==
    [cells EXCEPT !.array[NpIndex(y, Shape(cells.array)[1])]
                         [NpIndex(x, Shape(cells.array)[2])] = value]

Indexable(cells, x, y) == cells.rows > 0 /\ CanIndex(cells, x, y)

Offsets(cells, x, y, geographic) ==
    IF geographic
    THEN xyOffset(x, y, cells.origin, cells.cellWidth, cells.cellHeight)
    ELSE <<x, y>>

toRasterUnsigned(fs, cells, outRaster) ==
    Array2Raster(fs, cells.array, outRaster, cells.origin, cells.cellWidth,
                 [cells.cellHeight EXCEPT !.v = Abs(@)], cells.EPSG)

toRaster(fs, cells, outRaster) ==
    Array2Raster(fs, cells.array, outRaster, cells.origin, cells.cellWidth,
                 cells.cellHeight, cells.EPSG)

----------------------------------------------------------------------------
(* One raw step of GameofLife.cycle *)

RECURSIVE SumSeq(_)
SumSeq(s) == IF s = <<>> THEN 0 ELSE Head(s) + SumSeq(Tail(s))

TruncMod(a, b) == IF a < 0 THEN -((-a) % b) ELSE a % b

PyMod(a, b) == a % b

LoopPairs(i, j) ==
    << <<i - 1, j - 1>>, <<i - 1, j>>, <<i - 1, j + 1>>,
       <<i, j - 1>>,     <<i, j>>,     <<i, j + 1>>,
       <<i + 1, j - 1>>, <<i + 1, j>>, <<i + 1, j + 1>> >>

NeighbourReadsWithSelf(i, j, rows, cols) ==
    [m \in 1..9 |-> <<PyMod(LoopPairs(i, j)[m][2], cols),
                      PyMod(LoopPairs(i, j)[m][1], rows)>>]

NeighbourReads(i, j, rows, cols) ==
    LET kept == SelectSeq(LoopPairs(i, j), LAMBDA p : <<p[2], p[1]>> # <<j, i>>)
    IN [m \in 1..Len(kept) |-> <<PyMod(kept[m][2], cols), PyMod(kept[m][1], rows)>>]

sumNeighbors(in, i, j, rows, cols) ==
    LET reads == NeighbourReads(i, j, rows, cols)
    IN SumSeq([m \in 1..Len(reads) |-> Get(in, reads[m][1], reads[m][2])])

NextValueCrowdedAt3(boardValue, sum, old) ==
    IF boardValue = 1
    THEN IF sum < 2 THEN 0
         ELSE IF sum > 2 THEN 0
         ELSE old
    ELSE IF boardValue = 0 /\ sum = 3 THEN 1
    ELSE old

NextValue(boardValue, sum, old) ==
    IF boardValue = 1
    THEN IF sum < 2 THEN 0
         ELSE IF sum > 3 THEN 0
         ELSE old
    ELSE IF boardValue = 0 /\ sum = 3 THEN 1
    ELSE old

VisitCellInPlace(in, brd, i, j, rows, cols) ==
    Modified(brd, j, i,
             NextValue(Get(brd, j, i), sumNeighbors(brd, i, j, rows, cols),
                       Get(brd, j, i)))

VisitCell(in, brd, i, j, rows, cols) ==
    Modified(brd, j, i,
             NextValue(Get(in, j, i), sumNeighbors(in, i, j, rows, cols),
                       Get(brd, j, i)))

RECURSIVE Sweep(_, _, _, _, _)
Sweep(in, brd, order, rows, cols) ==
    IF order = <<>> THEN brd
    ELSE Sweep(in, VisitCell(in, brd, Head(order)[1], Head(order)[2], rows, cols),
               Tail(order), rows, cols)

RowMajor(rows, cols) ==
    [k \in 1..(rows * cols) |-> <<(k - 1) \div cols, (k - 1) % cols>>]

StepBoard(in, brd, rows, cols) == Sweep(in, brd, RowMajor(rows, cols), rows, cols)

Iterations(n, jump) == (n * jump) + 1

BoundaryAlways(cyclenum, jump) == TRUE

Boundary(cyclenum, jump) == PyMod(cyclenum, jump) = 0

ShowsAlways(cyclenum, jump, iterations) == TRUE

Shows(cyclenum, jump, iterations) ==
    Boundary(cyclenum, jump) \/ cyclenum + 1 = iterations

outLayerNumbered(ow, cyc) == <<"cycle">> \o Str(cyc)

outLayer(ow, cyc) == IF ow THEN <<"cycle">> ELSE <<"cycle">> \o Str(cyc)

----------------------------------------------------------------------------
(* Construction: GameofLife.__init__ *)

OutDirs == {<<"out">>, <<"life", "cycle">>}

RasterArgs == {"None", "external", "cycleslot"}

OtherFile ==
    [raster |-> FALSE, array |-> <<>>, rows |-> 0, cols |-> 0,
     origin |-> <<PyInt(0), PyInt(0)>>, cellWidth |-> PyInt(0),
     cellHeight |-> PyInt(0), srs |-> 0]

UserRaster(arr) ==
    [raster |-> TRUE, array |-> arr, rows |-> Shape(arr)[1], cols |-> Shape(arr)[2],
     origin |-> <<PyFloat(20), PyFloat(40)>>, cellWidth |-> PyFloat(4),
     cellHeight |-> PyFloat(-4), srs |-> 32617]

NotesPath(dir) == Join(dir, <<"notes", ".txt">>)

RasterPath(dir, raster) ==
    CASE raster = "None" -> Join(dir, <<"start", ".tif">>)
      [] raster = "external" -> <<"data", "in", ".tif">>
      [] raster = "cycleslot" -> Join(dir, <<"cycle", ".tif">>)

StartFiles(dir, raster, arr) ==
    LET existing == [p \in {NotesPath(dir)} |-> OtherFile]
        path == RasterPath(dir, raster)
    IN IF raster = "None"
       THEN Array2Raster(existing, arr, path, <<PyInt(0), PyInt(0)>>, PyInt(1),
                         PyInt(1), DefaultEPSG)
       ELSE [p \in DOMAIN existing \cup {path} |->
               IF p = path THEN UserRaster(arr) ELSE existing[p]]

NoRun == [n |-> 0, jump |-> 1, rows |-> 0, cols |-> 0, iterations |-> 1,
          cyclenum |-> 1, cycles0 |-> 0, done |-> 0, saves |-> 0, shown |-> 0]

StartLayer(path) == [source |-> path, name |-> <<"start">>]

NoCall == [name |-> "none"]

Constructed(dir, raster, ow, arr) ==
    /\ files = StartFiles(dir, raster, arr)
    /\ layers = <<StartLayer(RasterPath(dir, raster))>>
    /\ startRaster = RasterPath(dir, raster)
    /\ inRaster = RasterPath(dir, raster)
    /\ output = dir
    /\ cycles = 0
    /\ board = Cells(StartFiles(dir, raster, arr), RasterPath(dir, raster), DefaultEPSG)
    /\ overwrite = ow
    /\ EPSG = DefaultEPSG
    /\ pc = "idle"
    /\ run = NoRun
    /\ inBoard = board
    /\ result = "ok"
    /\ op = "init"
    /\ seed = arr
    /\ rawSteps = 0
    /\ gens = <<>>
    /\ snaps = {}
    /\ delFailed = {}
    /\ modifies = 0
    /\ call = NoCall

Dims(cells) ==
    {d \in (1..cells) \X (1..cells) : d[1] * d[2] <= cells}

Grids(cells) == UNION {Arrays(d[1], d[2]) : d \in Dims(cells)}

NumericGrids(cells) ==
    UNION {ArraysOver(NumericValues, d[1], d[2]) : d \in Dims(cells)}

Blinker(dim, ci, cj, horizontal) ==
    [i \in 0..(dim - 1) |->
        [j \in 0..(dim - 1) |->
            IF horizontal
            THEN IF i = ci /\ j \in {(cj - 1) % dim, cj, (cj + 1) % dim} THEN 1 ELSE 0
            ELSE IF j = cj /\ i \in {(ci - 1) % dim, ci, (ci + 1) % dim} THEN 1 ELSE 0]]

Blinkers(dim) ==
    {Blinker(dim, ci, cj, h) : ci \in 0..(dim - 1), cj \in 0..(dim - 1), h \in BOOLEAN}

Init ==
    \E dir \in OutDirs, raster \in RasterArgs, ow \in BOOLEAN,
       arr \in Grids(CtlMaxCells) :
        Constructed(dir, raster, ow, arr)

----------------------------------------------------------------------------
(* GameofLife.cycle *)

Call(n, jump) ==
    /\ pc = "idle"
    /\ pc' = "cycling"
    /\ run' = [n |-> n, jump |-> jump, rows |-> board.rows, cols |-> board.cols,
               iterations |-> Iterations(n, jump), cyclenum |-> 1,
               cycles0 |-> cycles, done |-> 0, saves |-> 0, shown |-> 0]
    /\ op' = "call"
    /\ delFailed' = {}
    /\ UNCHANGED <<files, layers, startRaster, inRaster, output, cycles, board,
                   overwrite, EPSG, inBoard, result, seed, rawSteps, gens, snaps,
                   modifies, call>>

CycleCall ==
    \E n \in 1..MaxN, jump \in 1..MaxJump :
        /\ rawSteps + (n * jump) <= MaxSteps
        /\ Call(n, jump)

CycleStep ==
    /\ pc = "cycling"
    /\ run.cyclenum < run.iterations
    /\ IF ~CanOpen(files, inRaster)
       THEN /\ pc' = "idle"
            /\ result' = "raised"
            /\ op' = "raise"
            /\ UNCHANGED <<files, layers, inRaster, cycles, board, run, inBoard,
                           rawSteps, gens, snaps>>
       ELSE LET in == Cells(files, inRaster, EPSG)
                boundary == Boundary(run.cyclenum, run.jump)
                cyc == IF boundary THEN cycles + run.jump ELSE cycles
                stepped == StepBoard(in, board, run.rows, run.cols)
                layer == outLayer(overwrite, cyc)
                outCyclePath == Join(output, TifName(layer))
                fs == toRaster(files, stepped, outCyclePath)
                show == Shows(run.cyclenum, run.jump, run.iterations)
            IN /\ inBoard' = in
               /\ cycles' = cyc
               /\ files' = fs
               /\ board' = Cells(fs, outCyclePath, EPSG)
               /\ inRaster' = outCyclePath
               /\ layers' = IF show
                            THEN (IF overwrite THEN <<>> ELSE layers)
                                 \o <<[source |-> outCyclePath, name |-> layer]>>
                            ELSE layers
               /\ run' = [run EXCEPT !.cyclenum = @ + 1,
                                     !.done = @ + 1,
                                     !.saves = @ + 1,
                                     !.shown = IF show THEN @ + 1 ELSE @]
               /\ rawSteps' = rawSteps + 1
               /\ gens' = Append(gens, board'.array)
               /\ snaps' = snaps \cup {outCyclePath}
               /\ op' = "step"
               /\ UNCHANGED <<pc, result>>
    /\ UNCHANGED <<startRaster, output, overwrite, EPSG, seed, delFailed, modifies,
                   call>>

CycleReturn ==
    /\ pc = "cycling"
    /\ run.cyclenum = run.iterations
    /\ pc' = "idle"
    /\ result' = IF run.n = 0 THEN "raised" ELSE "ok"
    /\ op' = "return"
    /\ UNCHANGED <<files, layers, startRaster, inRaster, output, cycles, board,
                   overwrite, EPSG, run, inBoard, seed, rawSteps, gens, snaps,
                   delFailed, modifies, call>>

----------------------------------------------------------------------------
(* GameofLife.reset *)

DeleteTargets(fs, dir) == {p \in ListDir(fs, dir) : ContainsCycle(p)}

Remove(fs, gone) == [p \in DOMAIN fs \ gone |-> fs[p]]

ResetWith(fail) ==
    /\ pc = "idle"
    /\ cycles' = 0
    /\ inRaster' = startRaster
    /\ op' = "reset"
    /\ rawSteps' = 0
    /\ gens' = <<>>
    /\ IF ~CanOpen(files, startRaster)
       THEN /\ layers' = <<>>
            /\ result' = "raised"
            /\ delFailed' = {}
            /\ UNCHANGED <<files, board, snaps>>
       ELSE /\ board' = Cells(files, startRaster, EPSG)
            /\ layers' = <<StartLayer(startRaster)>>
            /\ files' = Remove(files, DeleteTargets(files, output) \ fail)
            /\ snaps' = snaps \cap DOMAIN files'
            /\ delFailed' = fail
            /\ result' = "ok"
    /\ run' = NoRun
    /\ inBoard' = board'
    /\ UNCHANGED <<startRaster, output, overwrite, EPSG, pc, seed, modifies, call>>

Reset == ResetWith({})

(* reset in which os.remove raises for the files of fail *)

ResetFailing ==
    \E fail \in SUBSET DeleteTargets(files, output) :
        /\ fail # {}
        /\ Cardinality(fail) <= MaxDelFail
        /\ CanOpen(files, startRaster)
        /\ ResetWith(fail)

----------------------------------------------------------------------------
(* Cells.modify on the current board, array addressing *)

ModifyArgs(cells) == {<<0, 0>>, <<-1, -1>>, <<cells.cols, 0>>}

Modify ==
    /\ pc = "idle"
    /\ modifies < MaxModifies
    /\ modifies' = modifies + 1
    /\ op' = "modify"
    /\ \E xy \in ModifyArgs(board), value \in Values :
          IF CanIndex(board, xy[1], xy[2])
          THEN board' = Modified(board, xy[1], xy[2], value) /\ result' = "ok"
          ELSE board' = board /\ result' = "raised"
    /\ run' = NoRun
    /\ inBoard' = board'
    /\ delFailed' = {}
    /\ UNCHANGED <<files, layers, startRaster, inRaster, output, cycles, overwrite,
                   EPSG, pc, seed, rawSteps, gens, snaps, call>>

----------------------------------------------------------------------------
(* The controller driven by cycle and reset calls *)

Next == CycleCall \/ CycleStep \/ CycleReturn \/ Reset

Spec == Init /\ [][Next]_vars

(* The controller whose caller also changes the current board in place *)

NextModify == CycleCall \/ CycleStep \/ CycleReturn \/ Reset \/ Modify

SpecModify == Init /\ [][NextModify]_vars

(* The controller whose caller also asks for zero cycles *)

CycleCallZero == \E jump \in 1..MaxJump : Call(0, jump)

NextZero == CycleCall \/ CycleCallZero \/ CycleStep \/ CycleReturn \/ Reset

SpecZero == Init /\ [][NextZero]_vars

(* The controller whose resets may fail to delete files *)

NextCleanup == CycleCall \/ CycleStep \/ CycleReturn \/ Reset \/ ResetFailing

CleanupInit ==
    \E dir \in OutDirs, raster \in RasterArgs, ow \in BOOLEAN,
       arr \in Grids(CleanupMaxCells) :
        Constructed(dir, raster, ow, arr)

SpecCleanup == CleanupInit /\ [][NextCleanup]_vars

(* Calls of xyOffset on coordinates around an origin *)

Detached(fs, cells, res, o, c) ==
    /\ files = fs
    /\ layers = <<>>
    /\ startRaster = <<>>
    /\ inRaster = <<>>
    /\ output = <<>>
    /\ cycles = 0
    /\ board = cells
    /\ overwrite = TRUE
    /\ EPSG = DefaultEPSG
    /\ pc = "idle"
    /\ run = NoRun
    /\ inBoard = cells
    /\ result = res
    /\ op = o
    /\ seed = <<>>
    /\ rawSteps = 0
    /\ gens = <<>>
    /\ snaps = {}
    /\ delFailed = {}
    /\ modifies = 0
    /\ call = c

Origins == {<<PyInt(0), PyInt(0)>>, <<PyFloat(20), PyFloat(40)>>}

CellSizes ==
    {PyInt(1), PyInt(-2), PyFloat(2), PyFloat(-2), PyFloat(4), PyFloat(-4),
     PyFloat(6), PyFloat(-6)}

Distances ==
    {PyInt(k) : k \in (-MaxCoord)..MaxCoord}
        \cup {PyFloat(h) : h \in (-(2 * MaxCoord))..(2 * MaxCoord)}

OffsetInit ==
    \E origin \in Origins, cw \in CellSizes, ch \in CellSizes,
       dx \in Distances, dy \in Distances :
        Detached([p \in {} |-> OtherFile], NoCells, "ok", "init",
                 [name |-> "args", x |-> Plus(origin[1], dx), y |-> Plus(origin[2], dy),
                  rasterOrigin |-> origin, cellWidth |-> cw, cellHeight |-> ch,
                  Offsets |-> <<0, 0>>])

XyOffsetCall ==
    /\ call.name = "args"
    /\ call' = [call EXCEPT !.name = "xyOffset",
                            !.Offsets = xyOffset(call.x, call.y, call.rasterOrigin,
                                                 call.cellWidth, call.cellHeight)]
    /\ op' = "xyOffset"
    /\ UNCHANGED <<files, layers, startRaster, inRaster, output, cycles, board,
                   overwrite, EPSG, pc, run, inBoard, result, seed, rawSteps, gens,
                   snaps, delFailed, modifies>>

OffsetNext == XyOffsetCall

SpecOffset == OffsetInit /\ [][OffsetNext]_vars

(* One Cells object: its construction, then calls of get and modify *)

Rows(n) == UNION {[1..k -> Values] : k \in 0..n}

Literals(n) == UNION {[1..k -> Rows(n)] : k \in 0..n}

RasterArg(kind, value, literal, path) ==
    [kind |-> kind, value |-> value, literal |-> literal, path |-> path]

InPath == <<"data", "in", ".tif">>

MissingPath == <<"data", "missing", ".tif">>

InRasters ==
    {RasterArg("None", 0, <<>>, <<>>)}
        \cup {RasterArg("number", value, <<>>, <<>>) : value \in Values}
        \cup {RasterArg("list", 0, literal, <<>>) : literal \in Literals(MaxDim)}
        \cup {RasterArg("path", 0, <<>>, path) : path \in {InPath, MissingPath}}

Geometries ==
    {[rasterOrigin |-> <<PyInt(0), PyInt(0)>>, pixelWidth |-> PyInt(1),
      pixelHeight |-> PyInt(1)],
     [rasterOrigin |-> <<PyFloat(6), PyFloat(-6)>>, pixelWidth |-> PyFloat(3),
      pixelHeight |-> PyFloat(-3)]}

CallerEPSGs == {DefaultEPSG, 3857}

CellsInit ==
    \E inRasterArg \in InRasters, epsg \in CallerEPSGs, geometry \in Geometries,
       rows \in 0..MaxDim, cols \in 0..MaxDim, stored \in Arrays(MaxDim, MaxDim) :
    \E rnd \in Arrays(rows, cols) :
        LET fs == [p \in {InPath} |-> UserRaster(stored)]
            made == CellsNew(fs, inRasterArg, epsg, geometry.rasterOrigin, cols, rows,
                             geometry.pixelWidth, geometry.pixelHeight, rnd)
        IN /\ inRasterArg.kind \in {"list", "path"} => rows = MaxDim /\ cols = MaxDim
           /\ inRasterArg.kind # "None" => rnd = Filled(rows, cols, 0)
           /\ inRasterArg.kind # "path" => stored = Filled(MaxDim, MaxDim, 0)
           /\ Detached(fs, made.cells, IF made.raised THEN "raised" ELSE "ok", "init",
                       [name |-> "Cells", inRaster |-> inRasterArg, EPSG |-> epsg,
                        rasterOrigin |-> geometry.rasterOrigin, cols |-> cols,
                        rows |-> rows, pixelWidth |-> geometry.pixelWidth,
                        pixelHeight |-> geometry.pixelHeight])

ArrayArgs == (-(MaxDim + 1))..(MaxDim + 1)

GeoArgs(o) == {Plus(o, PyInt(k)) : k \in (-MaxCoord)..MaxCoord}

CellsCalled(name, x, y, geographic, value, raised, ret) ==
    [name |-> name, x |-> x, y |-> y, geographic |-> geographic, value |-> value,
     Offsets |-> Offsets(board, x, y, geographic), raised |-> raised, ret |-> ret]

GetAt(x, y, geographic) ==
    /\ call.name = "Cells"
    /\ result = "ok"
    /\ LET off == Offsets(board, x, y, geographic)
       IN IF Indexable(board, off[1], off[2])
          THEN /\ call' = CellsCalled("get", x, y, geographic, 0, FALSE,
                                      Get(board, off[1], off[2]))
               /\ result' = "ok"
          ELSE /\ call' = CellsCalled("get", x, y, geographic, 0, TRUE, 0)
               /\ result' = "raised"
    /\ op' = "get"
    /\ UNCHANGED <<files, layers, startRaster, inRaster, output, cycles, board,
                   overwrite, EPSG, pc, run, inBoard, seed, rawSteps, gens, snaps,
                   delFailed, modifies>>

ModifyAt(x, y, value, geographic) ==
    /\ call.name = "Cells"
    /\ result = "ok"
    /\ LET off == Offsets(board, x, y, geographic)
       IN IF Indexable(board, off[1], off[2])
          THEN /\ board' = Modified(board, off[1], off[2], value)
               /\ call' = CellsCalled("modify", x, y, geographic, value, FALSE, 0)
               /\ result' = "ok"
          ELSE /\ board' = board
               /\ call' = CellsCalled("modify", x, y, geographic, value, TRUE, 0)
               /\ result' = "raised"
    /\ op' = "modify"
    /\ UNCHANGED <<files, layers, startRaster, inRaster, output, cycles, overwrite,
                   EPSG, pc, run, inBoard, seed, rawSteps, gens, snaps, delFailed,
                   modifies>>

CellsGet ==
    \/ \E x \in ArrayArgs, y \in ArrayArgs : GetAt(x, y, FALSE)
    \/ \E x \in GeoArgs(board.origin[1]), y \in GeoArgs(board.origin[2]) :
          GetAt(x, y, TRUE)

CellsModify ==
    \E value \in Values :
        \/ \E x \in ArrayArgs, y \in ArrayArgs : ModifyAt(x, y, value, FALSE)
        \/ \E x \in GeoArgs(board.origin[1]), y \in GeoArgs(board.origin[2]) :
              ModifyAt(x, y, value, TRUE)

CellsNext == CellsGet \/ CellsModify

SpecCells == CellsInit /\ [][CellsNext]_vars

(* Single raw steps from every small grid and from every blinker *)

RuleInit ==
    \E arr \in Grids(MaxCells) \cup Blinkers(BlinkerDim) :
        Constructed(<<"out">>, "None", TRUE, arr)

RuleCall ==
    /\ rawSteps < MaxRuleSteps
    /\ Call(1, 1)

RuleNext == RuleCall \/ CycleStep \/ CycleReturn

SpecRule == RuleInit /\ [][RuleNext]_vars

(* Single raw steps from rasters whose cells hold other values than 0 and 1 *)

NumericInit ==
    \E dir \in OutDirs, ow \in BOOLEAN, arr \in NumericGrids(CtlMaxCells) :
        Constructed(dir, "external", ow, arr)

SpecNumeric == NumericInit /\ [][RuleNext]_vars

----------------------------------------------------------------------------
(* Properties *)

Around == {d \in {-1, 0, 1} \X {-1, 0, 1} : d # <<0, 0>>}

LiveCount(arr, i, j) ==
    Cardinality({d \in Around :
        arr[(i + d[1]) % Shape(arr)[1]][(j + d[2]) % Shape(arr)[2]] = 1})

AliveRow == <<0, 0, 1, 1, 0, 0, 0, 0, 0>>

DeadRow == <<0, 0, 0, 1, 0, 0, 0, 0, 0>>

AllCells == (0..(board.rows - 1)) \X (0..(board.cols - 1))

\* C1: after one raw step every cell holds the value the rule table gives for
\* the cell's value and its number of live neighbours in the grid the step
\* read: Alive with 2 or 3 stays Alive and otherwise dies, Dead with exactly 3
\* becomes Alive and otherwise stays Dead.
C1_RuleTable ==
    op = "step" =>
        \A c \in AllCells :
            board.array[c[1]][c[2]] =
                (IF inBoard.array[c[1]][c[2]] = 1 THEN AliveRow ELSE DeadRow)
                    [LiveCount(inBoard.array, c[1], c[2]) + 1]

C1_Witness ==
    /\ op = "step"
    /\ \E c \in AllCells : /\ inBoard.array[c[1]][c[2]] = 1
                            /\ LiveCount(inBoard.array, c[1], c[2]) = 3
                            /\ board.array[c[1]][c[2]] = 1
    /\ \E c \in AllCells : /\ inBoard.array[c[1]][c[2]] = 1
                            /\ LiveCount(inBoard.array, c[1], c[2]) = 4
                            /\ board.array[c[1]][c[2]] = 0
    /\ \E c \in AllCells : /\ inBoard.array[c[1]][c[2]] = 0
                            /\ LiveCount(inBoard.array, c[1], c[2]) = 3
                            /\ board.array[c[1]][c[2]] = 1

Wrapped(k, n) == IF k < 0 THEN n - 1 ELSE IF k >= n THEN 0 ELSE k

Torus(i, j, rows, cols) ==
    << <<Wrapped(j - 1, cols), Wrapped(i - 1, rows)>>,
       <<Wrapped(j, cols),     Wrapped(i - 1, rows)>>,
       <<Wrapped(j + 1, cols), Wrapped(i - 1, rows)>>,
       <<Wrapped(j - 1, cols), Wrapped(i, rows)>>,
       <<Wrapped(j + 1, cols), Wrapped(i, rows)>>,
       <<Wrapped(j - 1, cols), Wrapped(i + 1, rows)>>,
       <<Wrapped(j, cols),     Wrapped(i + 1, rows)>>,
       <<Wrapped(j + 1, cols), Wrapped(i + 1, rows)>> >>

\* C2: for every cell of the grid, of any size, a step reads exactly the 8
\* neighbour positions of the torus (column -1 is column C-1, column C is
\* column 0, row -1 is row R-1, row R is row 0), every one of them inside
\* the grid, and the neighbour sum of the step is the sum over these cells.
C2_Toroidal ==
    \A c \in AllCells :
        LET reads == NeighbourReads(c[1], c[2], board.rows, board.cols)
            torus == Torus(c[1], c[2], board.rows, board.cols)
        IN /\ Len(reads) = 8
           /\ \A m \in 1..Len(reads) : /\ reads[m][1] \in 0..(board.cols - 1)
                                        /\ reads[m][2] \in 0..(board.rows - 1)
           /\ reads = torus
           /\ op = "step" =>
                 sumNeighbors(inBoard, c[1], c[2], board.rows, board.cols) =
                 SumSeq([m \in 1..8 |-> inBoard.array[torus[m][2]][torus[m][1]]])

C2_Witness ==
    /\ op = "step"
    /\ board.rows = 1
    /\ board.cols = 2
    /\ NeighbourReads(0, 0, board.rows, board.cols)[1] = <<1, 0>>
    /\ inBoard.array[0][1] = 1

\* C3: from a 4x4 grid seeded with one blinker, the grid after 1 raw step is
\* the blinker of the other orientation through the same centre, and the
\* grid after 2 raw steps is the seed.
C3_Blinker ==
    \A ci \in 0..(BlinkerDim - 1), cj \in 0..(BlinkerDim - 1), h \in BOOLEAN :
        seed = Blinker(BlinkerDim, ci, cj, h) =>
            /\ rawSteps = 1 => board.array = Blinker(BlinkerDim, ci, cj, ~h)
            /\ rawSteps = 2 => board.array = seed

C3_Witness ==
    /\ seed \in Blinkers(BlinkerDim)
    /\ rawSteps = 2
    /\ op = "return"
    /\ gens[1] # seed

\* C4: cycles is never negative and equals the number of raw steps since
\* construction or the last reset whenever no call is running; a call
\* cycle(n, jump) that returns has executed exactly n * jump raw steps and
\* has added n * jump to cycles; cycles changes only by a step adding jump or
\* by reset setting it to 0; and a running call is always at a raw step
\* or at its return, each step bringing it one step closer to the return.
C4_Counts ==
    /\ cycles >= 0
    /\ pc = "cycling" => /\ run.cyclenum <= run.iterations
                         /\ run.iterations = (run.n * run.jump) + 1
    /\ pc = "idle" => cycles = rawSteps
    /\ op = "return" => /\ run.done = run.n * run.jump
                        /\ cycles = run.cycles0 + (run.n * run.jump)

C4_Increments ==
    [][cycles' # cycles =>
          \/ op' = "reset" /\ cycles' = 0
          \/ op' = "step" /\ cycles' = cycles + run.jump]_vars

C4_Progress ==
    [][pc = "cycling" =>
          \/ pc' = "idle"
          \/ /\ run'.iterations = run.iterations
             /\ run'.cyclenum = run.cyclenum + 1
             /\ run'.done = run.done + 1]_vars

C4_CycleCount ==
    /\ []C4_Counts
    /\ C4_Increments
    /\ C4_Progress

C4_Witness ==
    /\ op = "return"
    /\ run.jump = 2
    /\ run.cycles0 = 1
    /\ cycles = 3

\* C5: after reset the current board holds the values the start raster had at
\* construction and cycles is 0, also when the reset follows another reset.
C5_ResetRestores ==
    op = "reset" => /\ result = "ok"
                    /\ board.array = seed
                    /\ cycles = 0

\* C6: the start raster always exists and holds the values it had at
\* construction.
C6_StartImmutable ==
    /\ CanOpen(files, startRaster)
    /\ files[startRaster].array = seed

NumberedSlot(g) == Join(output, TifName(<<"cycle">> \o Str(g)))

\* C7: without overwriting, once a call has returned every raw step g since
\* the last reset has its own file "cycle" + g that holds generation g.
C7_FullHistory ==
    (~overwrite /\ pc = "idle") =>
        \A g \in 1..rawSteps :
            /\ NumberedSlot(g) \in DOMAIN files
            /\ files[NumberedSlot(g)].array = gens[g]

CycleSlot == Join(output, TifName(<<"cycle">>))

\* C8: when overwriting, the only file a step has written is "cycle", the
\* only rasters are that file and the start raster, and after every step the
\* file "cycle" holds the current board, the successor of the grid the step
\* read.
C8_SingleSlot ==
    overwrite =>
        /\ snaps \subseteq {CycleSlot}
        /\ \A p \in DOMAIN files : files[p].raster => p \in {CycleSlot, startRaster}
        /\ op \in {"step", "return"} =>
              /\ CycleSlot \in DOMAIN files
              /\ files[CycleSlot].array = board.array
              /\ board.array =
                    StepBoard(inBoard, inBoard, board.rows, board.cols).array

C8_Witness ==
    /\ overwrite
    /\ op = "step"
    /\ rawSteps = 3
    /\ startRaster # CycleSlot
    /\ files[CycleSlot].array # seed
    /\ files[CycleSlot].array # gens[2]

\* C9 as stated: the number of files a call has saved is the number of
\* interval boundaries it has passed, n in all.
C9_SavesAtBoundaries ==
    op \in {"step", "return"} => run.saves = (run.cyclenum - 1) \div run.jump

\* C9: a call saves a file at every raw step, n * jump in all, the file the
\* next step reads; only the display is limited to the interval boundaries,
\* n in all.
C9_SavesEveryStep ==
    op \in {"step", "return"} =>
        /\ run.saves = run.cyclenum - 1
        /\ run.shown = (run.cyclenum - 1) \div run.jump
        /\ op = "step" => /\ inRaster \in snaps
                          /\ files[inRaster].array = board.array
        /\ op = "return" => /\ run.saves = run.n * run.jump
                            /\ run.shown = run.n

C9_Witness ==
    /\ op = "return"
    /\ run.jump = 2
    /\ run.n = 2
    /\ run.saves = 4
    /\ run.shown = 2

\* C10: a reset in which no deletion fails removes every file a step has
\* written and leaves the start raster and every other file in place.
C10_ResetDeletesSnapshotsOnly ==
    [][(op' = "reset" /\ result' = "ok" /\ delFailed' = {}) =>
          /\ \A p \in snaps \ {startRaster} : p \notin DOMAIN files'
          /\ \A p \in (DOMAIN files \ snaps) \cup {startRaster} :
                p \in DOMAIN files']_vars

\* C11: a reset in which the deletion of some files fails still returns
\* normally, with cycles 0, the input raster the start raster and the current
\* board holding the values the start raster had at construction, and it has
\* deleted every file written by a step, and every other file it tries to
\* delete, whose deletion did not fail.
C11_FailedDeleteHarmless ==
    [][(op' = "reset" /\ delFailed' # {}) =>
          /\ result' = "ok"
          /\ pc' = "idle"
          /\ cycles' = 0
          /\ inRaster' = startRaster
          /\ board'.array = seed
          /\ \A p \in snaps \ delFailed' : p \notin DOMAIN files'
          /\ DeleteTargets(files', output) = delFailed'
          /\ \A p \in delFailed' : p \in DOMAIN files' /\ files'[p] = files[p]]_vars

\* C13: xyOffset returns the floor of (x - origin.x) / cellWidth as column
\* and the floor of (y + 1 - origin.y) / cellHeight as row, for every input,
\* negative and fractional quotients included.
C13_FloorOffsets ==
    call.name = "xyOffset" =>
        /\ call.Offsets[1] =
              FloorDiv(call.x.v - call.rasterOrigin[1].v, call.cellWidth.v)
        /\ call.Offsets[2] =
              FloorDiv((call.y.v + 2) - call.rasterOrigin[2].v, call.cellHeight.v)

CentreOf(k, origin, size) == (2 * origin.v) + (((2 * k) + 1) * size.v)

\* C14: the geographic coordinate of the centre of cell (col, row), passed
\* through xyOffset, gives (col, row), for every origin and every cell width
\* and cell height other than 0.
C14_RoundTrip ==
    call.name = "xyOffset" =>
        \A col \in 0..MaxIndex, row \in 0..MaxIndex :
            (/\ 2 * call.x.v = CentreOf(col, call.rasterOrigin[1], call.cellWidth)
             /\ 2 * call.y.v = CentreOf(row, call.rasterOrigin[2], call.cellHeight))
                => call.Offsets = <<col, row>>

InGrid(cells, off) ==
    off[1] \in 0..(cells.cols - 1) /\ off[2] \in 0..(cells.rows - 1)

\* C12: a get or a modify whose resolved index (col, row), found by array or
\* by geographic addressing, lies outside [0, cols) x [0, rows) raises, returns
\* no cell value and leaves every cell of the grid as it was; negative indices
\* count as outside.
C12_OutOfBoundsRaises ==
    [][(call'.name \in {"get", "modify"} /\ ~InGrid(board, call'.Offsets)) =>
          /\ result' = "raised"
          /\ call'.raised
          /\ board' = board]_vars

\* C15: a Cells object loaded from a raster has the rows, cols, origin, cell
\* width, cell height and spatial reference id stored with the raster,
\* whatever the caller passed to the constructor.
C15_MetadataFromLoad ==
    (call.name = "Cells" /\ call.inRaster.kind = "path" /\ result = "ok") =>
        LET stored == files[call.inRaster.path]
        IN /\ board.rows = stored.rows
           /\ board.cols = stored.cols
           /\ board.origin = stored.origin
           /\ board.cellWidth = stored.cellWidth
           /\ board.cellHeight = stored.cellHeight
           /\ board.EPSG = stored.srs

Malformed(args) ==
    \/ args.inRaster.kind \in {"None", "number"} /\ (args.rows = 0 \/ args.cols = 0)
    \/ /\ args.inRaster.kind = "list"
       /\ \/ ~Rectangular(args.inRaster.literal)
          \/ Len(args.inRaster.literal[1]) = 0

\* C16: constructing a Cells object from a literal that is not rectangular,
\* or with zero rows or zero columns in the filled, random or literal variant,
\* raises, and no Cells object has zero rows or zero columns.
C16_MalformedRejected ==
    /\ (call.name = "Cells" /\ Malformed(call)) => result = "raised"
    /\ board # NoCells => (board.rows > 0 /\ board.cols > 0)

\* C17: a raw step turns the board the controller holds when the step
\* starts, also a board that modify has changed in place, into the result of
\* the rule applied to every cell of that board, cell values and neighbour
\* sums both taken from it.
C17_StepUsesCurrentBoard ==
    [][op' = "step" =>
          board'.array = StepBoard(board, board, board.rows, board.cols).array]_vars

\* C18: in a step on a grid that holds values other than 0 and 1, the
\* neighbour sum of every cell is the number of its 8 wrapped neighbours
\* whose value is exactly 1, and every cell holding 0 or 1 gets the value the
\* rule table gives for that number.
C18_CountsOnlyOnes ==
    op = "step" =>
        \A c \in AllCells :
            /\ sumNeighbors(inBoard, c[1], c[2], board.rows, board.cols) =
                  LiveCount(inBoard.array, c[1], c[2])
            /\ inBoard.array[c[1]][c[2]] \in {0, 1} =>
                  board.array[c[1]][c[2]] =
                      (IF inBoard.array[c[1]][c[2]] = 1 THEN AliveRow ELSE DeadRow)
                          [LiveCount(inBoard.array, c[1], c[2]) + 1]

RECURSIVE Orders(_)
Orders(cells) ==
    IF cells = {} THEN {<<>>}
    ELSE UNION {{<<c>> \o rest : rest \in Orders(cells \ {c})} : c \in cells}

\* C19: a step leaves the grid it reads, inBoard, as it was loaded from the
\* input raster, and in whatever order the cells are visited, reading from
\* inBoard and writing into the board gives the same successor, the one the
\* step produced.
C19_DoubleBuffered ==
    [][op' = "step" =>
          /\ inBoard' = Cells(files, inRaster, EPSG)
          /\ \A order \in Orders((0..(run.rows - 1)) \X (0..(run.cols - 1))) :
                Sweep(inBoard', board, order, run.rows, run.cols).array = board'.array]_vars

C19_Witness ==
    /\ op = "step"
    /\ board.rows * board.cols = 4
    /\ \E c1 \in AllCells, c2 \in AllCells :
          /\ c1 # c2
          /\ board.array[c1[1]][c1[2]] # inBoard.array[c1[1]][c1[2]]
          /\ board.array[c2[1]][c2[2]] # inBoard.array[c2[1]][c2[2]]

AtStepStart ==
    \/ pc = "idle"
    \/ pc = "cycling" /\ run.cyclenum < run.iterations /\ result = "ok"

\* C20: after construction, after every reset and at the start of every raw
\* step the input raster exists, it is the start raster or a file that a step
\* has saved, and it holds the values of the current board.
C20_BoardIsInputSnapshot ==
    AtStepStart =>
        /\ CanOpen(files, inRaster)
        /\ inRaster \in snaps \cup {startRaster}
        /\ files[inRaster].array = board.array

ConstructedGrid ==
    LET raster == CHOOSE r \in RasterArgs : RasterPath(output, r) = startRaster
    IN Cells(StartFiles(output, raster, seed), startRaster, DefaultEPSG)

C21_SameMetadata ==
    /\ board.rows = ConstructedGrid.rows
    /\ board.cols = ConstructedGrid.cols
    /\ board.origin = ConstructedGrid.origin
    /\ board.cellWidth = ConstructedGrid.cellWidth
    /\ board.cellHeight = ConstructedGrid.cellHeight
    /\ board.EPSG = ConstructedGrid.EPSG

C21_StepChangesValuesOnly ==
    [][op' = "step" => [board' EXCEPT !.array = board.array] = board]_vars

\* C21: after any sequence of cycle and reset calls the current board has
\* the rows, cols, origin, cell width, cell height, sign included, and EPSG of
\* the board the controller was constructed with, and a step changes nothing
\* of the board but its cell values.
C21_MetadataPreserved ==
    /\ []C21_SameMetadata
    /\ C21_StepChangesValuesOnly

C21_Witness ==
    /\ op = "step"
    /\ rawSteps = 2
    /\ board.cellHeight = PyFloat(-4)
    /\ board.origin = <<PyFloat(20), PyFloat(40)>>
    /\ inRaster # startRaster
    /\ files[inRaster].cellHeight = PyFloat(-4)
    /\ board.array # seed

\* C22: a call cycle(0, jump) runs no raw step, returns without raising and
\* leaves the current board, cycles, the input raster and every file as they
\* were.
C22_ZeroCyclesNoop ==
    [][(pc = "cycling" /\ run.n = 0) =>
          /\ op' = "return"
          /\ result' = "ok"
          /\ run.done = 0
          /\ UNCHANGED <<board, cycles, inRaster, files, layers>>]_vars

====
